---- MODULE Spec2Model ----
(***************************************************************************)
(* Model of the Sciospec EIT device controller (SciospecEITDevice) and of  *)
(* the collaborators it drives: the communicator, the serial interface,    *)
(* the setup store and the measurement dataset.                            *)
(*                                                                         *)
(* Every method of the controller is an operator from a program state (a   *)
(* record `s`) to the program state after the call; an action applies one  *)
(* public method to the current state.  What a call does that an observer  *)
(* can see (commands submitted, notifications, message boxes, opening and  *)
(* closing of the port) is appended to `trace`, which holds the events of  *)
(* the call that has just returned; `op` names that call.  Once the call   *)
(* has been observed the log is cleared (Observed) and the next call can   *)
(* be made.                                                                *)
(***************************************************************************)
EXTENDS Naturals, Sequences, FiniteSets

VARIABLES
    meas_status,       \* self.meas_status.state
    device_name,       \* self.device_name
    sciospec_devices,  \* self.sciospec_devices, a set of <<name, port>>
    setup,             \* self.setup: [sn, burst, exc_pattern, exc_pattern_idx]
    is_connected,      \* self.serial_interface.is_connected
    port,              \* the port the serial interface holds open, or NoPort
    busy,              \* the communicator's outstanding-request flag
    outstanding,       \* the command the outstanding request is for
    nb_frames,         \* frames the dataset holds since its last init for start
    ports_available,   \* serial ports present on the machine
    dev_streaming,     \* the instrument itself is in measuring mode
    rx_pending,        \* measurement frames received and not yet dispatched
    burst_reached,     \* the burst count was reached, and no start since
    trace,             \* observable events of the call that has just returned
    op,                \* that call: [name, pre, idx, ret], or NoOp
    commanded,         \* option of the last start/stop command sent with success
    dev_status,        \* connected flag of the last DevStatus published
    agent,             \* the EventsAgent: [subscribers, app, events]
    event_data,        \* the data objects a caller holds, by reference
    posted             \* the last post_event_data call, or NoPost

vars == <<meas_status, device_name, sciospec_devices, setup, is_connected, port,
          busy, outstanding, nb_frames, ports_available, dev_streaming,
          rx_pending, burst_reached, trace, op, commanded, dev_status,
          agent, event_data, posted>>

----------------------------------------------------------------------------
(* Bounds of the model *)

MaxBurst == 2
MaxFrames == 3
MaxPattern == 2
MaxInFlight == 1

----------------------------------------------------------------------------
(* Values *)

IDLE == "IDLE"
MEASURING == "MEASURING"
PAUSED == "PAUSED"
MeasuringStates == {IDLE, MEASURING, PAUSED}

NONE_DEVICE == "None Device"

NoPort == "no port"
\* The serial ports of the machine, in the order get_ports_available lists them.
Ports == <<"COM3", "COM4">>
PortSet == {Ports[i] : i \in 1..Len(Ports)}
\* COM3 carries the Sciospec instrument, COM4 some other serial device that
\* stays plugged in.
SciospecPorts == {"COM3"}
Pluggable == {"COM3"}

\* Serial numbers: NoSN is the placeholder of a fresh setup.
NoSN == "sn:none"
DeviceSN == "sn:A"
\* setup.build_sciospec_device_name: the name built from the serial number.
DevName(sn) == IF sn = DeviceSN THEN "DevA" ELSE "None"
DeviceNames == {NONE_DEVICE, "DevA", "DevB"}

\* How the instrument answers during one call: "fast", the acknowledgement is
\* dispatched before the caller's next statement; "slow", only while the caller
\* blocks in wait_not_busy; "none", never (the wait times out).
Resp == {"fast", "slow", "none"}

NoCmd == <<"", "">>
CMD_START_STOP_MEAS == "CMD_START_STOP_MEAS"
CMD_GET_DEVICE_INFOS == "CMD_GET_DEVICE_INFOS"
CMD_SET_OUTPUT_CONFIG == "CMD_SET_OUTPUT_CONFIG"
CMD_GET_OUTPUT_CONFIG == "CMD_GET_OUTPUT_CONFIG"
CMD_SET_ETHERNET_CONFIG == "CMD_SET_ETHERNET_CONFIG"
CMD_GET_ETHERNET_CONFIG == "CMD_GET_ETHERNET_CONFIG"
CMD_SET_MEAS_SETUP == "CMD_SET_MEAS_SETUP"
CMD_GET_MEAS_SETUP == "CMD_GET_MEAS_SETUP"
CMD_SOFT_RESET == "CMD_SOFT_RESET"
OP_NULL == "OP_NULL"
OP_START_MEAS == "OP_START_MEAS"
OP_STOP_MEAS == "OP_STOP_MEAS"
OP_EXC_STAMP == "OP_EXC_STAMP"
OP_CURRENT_STAMP == "OP_CURRENT_STAMP"
OP_TIME_STAMP == "OP_TIME_STAMP"
OP_DHCP == "OP_DHCP"
OP_IP_ADRESS == "OP_IP_ADRESS"
OP_MAC_ADRESS == "OP_MAC_ADRESS"
OP_RESET_SETUP == "OP_RESET_SETUP"
OP_EXC_AMPLITUDE == "OP_EXC_AMPLITUDE"
OP_BURST_COUNT == "OP_BURST_COUNT"
OP_FRAME_RATE == "OP_FRAME_RATE"
OP_EXC_FREQUENCIES == "OP_EXC_FREQUENCIES"
OP_EXC_PATTERN == "OP_EXC_PATTERN"

\* SciospecSetup(n_channel): the setup of a fresh controller.
InitSetup ==
    [sn |-> NoSN, burst |-> 0, exc_pattern |-> MaxPattern, exc_pattern_idx |-> 0]

----------------------------------------------------------------------------
(* The program state as one record, and the events of a call *)

State ==
    [meas_status |-> meas_status, device_name |-> device_name,
     sciospec_devices |-> sciospec_devices, setup |-> setup,
     is_connected |-> is_connected, port |-> port, busy |-> busy,
     outstanding |-> outstanding, nb_frames |-> nb_frames,
     ports_available |-> ports_available, dev_streaming |-> dev_streaming,
     rx_pending |-> rx_pending, trace |-> <<>>, ret |-> "None"]

\* An event: its kind k, two details a and b, whether it succeeded, and the
\* measuring state, the outstanding flag and the selected excitation-pattern
\* row at the moment it happens.
Ev(s, k, a, b, ok) ==
    [k |-> k, a |-> a, b |-> b, ok |-> ok, st |-> s.meas_status, busy |-> s.busy,
     idx |-> s.setup.exc_pattern_idx]

\* The event of a call of send_communicator: the command, the value returned,
\* the outstanding flag the call found, and the outstanding request before the
\* call (was) and when it returns (out).
SendEv(s, s1, cmd, o) ==
    [k |-> "send", a |-> cmd, b |-> o, ok |-> (s1.ret = "True"),
     st |-> s.meas_status, busy |-> s.busy, idx |-> s.setup.exc_pattern_idx,
     out |-> s1.outstanding, was |-> s.outstanding]

Log(s, k, a, b, ok) == [s EXCEPT !.trace = Append(@, Ev(s, k, a, b, ok))]

Ret(s, v) == [s EXCEPT !.ret = v]

Bool(b) == IF b THEN "True" ELSE "False"

----------------------------------------------------------------------------
(* Notifications: to the GUI, to the capture device, to the dataset *)

is_measuring(s) == s.meas_status = MEASURING
is_paused(s) == s.meas_status = PAUSED
is_idle(s) == s.meas_status = IDLE

\* emit_to_gui(data): data is an event dataclass `cls` with the fields `payload`.
emit_to_gui(s, cls, payload) == Log(s, "gui", cls, payload, TRUE)

\* A capture-device flag that is true only while Measuring.
emit_to_capture_dev_measuring_only(s) ==
    Log(s, "capture", Bool(is_measuring(s)), "", TRUE)

emit_to_capture_dev(s) ==
    Log(s, "capture", Bool(is_measuring(s) \/ is_paused(s)), "", TRUE)

emit_meas_status(s) ==
    emit_to_capture_dev(emit_to_gui(s, "MeasuringStatus", s.meas_status))

\* meas_status.change_state(new): the `changed` signal is connected to
\* emit_meas_status and fires when the state changes.
change_state(s, new) ==
    IF s.meas_status = new THEN s
    ELSE emit_meas_status([s EXCEPT !.meas_status = new])

connect_prompt(s) == s.device_name \o " - CONNECTED"

emit_dev_status(s) ==
    Log(s, "gui", "DevStatus", connect_prompt(s), s.is_connected)

\* The dataset, on a measurement frame: it stores the frame.
dataset_add_frame(s) ==
    [s EXCEPT !.nb_frames = IF @ < MaxFrames THEN @ + 1 ELSE @]

emit_to_dataset(s, key) == Log(s, "dataset", key, "", TRUE)

dataset_init_for_pause(s) == emit_to_dataset(s, "reinit_4_pause")

\* The dataset starts a new recording on the setup it is handed.
dataset_init_for_start(s) ==
    [emit_to_dataset(s, "dev_setup") EXCEPT !.nb_frames = 0]

infoMsgBox(s, msg) == Log(s, "msg", msg, "", TRUE)

----------------------------------------------------------------------------
(* The serial interface *)

\* open(port): fails when the port is not there.
interface_open(s, p) ==
    IF p \in s.ports_available
    THEN Ret(Log([s EXCEPT !.is_connected = TRUE, !.port = p, !.rx_pending = 0],
                 "open", p, "", TRUE), "True")
    ELSE Ret(Log(s, "open", p, "", FALSE), "False")

\* close(): closing a closed interface succeeds too.
interface_close(s) ==
    Ret(Log([s EXCEPT !.is_connected = FALSE, !.port = NoPort, !.rx_pending = 0],
            "close", "", "", TRUE), "True")

\* write(frame) succeeds on an open port whose device is still plugged in.
WriteOk(s) == s.is_connected /\ s.port \in s.ports_available

_connect_interface(s, p) == interface_open(s, p)

warningMsgBox(s, title) == Log(s, "msg", title, "", TRUE)

\* The errors the serial interface reports through its error signal: a port
\* that is not open, or an open port whose device is gone.
InterfaceErrors(s) ==
    IF ~s.is_connected THEN {"PortNotOpenError"}
    ELSE IF s.port \notin s.ports_available THEN {"SerialException", "OSError"}
    ELSE {}

\* _handle_interface_error(error): a warning box for a PortNotOpenError or a
\* SerialException; the handling of the disconnection is a TODO.
_handle_interface_error(s, error) ==
    IF error = "PortNotOpenError" THEN Ret(warningMsgBox(s, "None devices available"), "None")
    ELSE IF error = "SerialException" THEN Ret(warningMsgBox(s, "Device not detected"), "None")
    ELSE Ret(s, "None")

_disconnect_interface(s) == interface_close(s)

----------------------------------------------------------------------------
(* The instrument and the communicator *)

\* The instrument receives a written command and acts on it.
DeviceHears(s, r) == s.port \in SciospecPorts /\ r # "none"

DeviceExecutes(s, cmd, o, r) ==
    IF ~DeviceHears(s, r) THEN s
    ELSE IF cmd = CMD_START_STOP_MEAS /\ o = OP_START_MEAS
    THEN [s EXCEPT !.dev_streaming = TRUE]
    ELSE IF cmd = CMD_START_STOP_MEAS /\ o = OP_STOP_MEAS
    THEN [s EXCEPT !.dev_streaming = FALSE,
                   !.rx_pending = IF s.dev_streaming THEN MaxInFlight ELSE @]
    ELSE IF cmd = CMD_SOFT_RESET
    THEN [s EXCEPT !.dev_streaming = FALSE]
    ELSE s

\* setup.set_data(rx_setup_stream): a device-infos reply carries the serial number.
setup_set_data(s, cmd) ==
    IF cmd[1] = CMD_GET_DEVICE_INFOS
    THEN [s EXCEPT !.setup.sn = DeviceSN]
    ELSE s

\* The acknowledgement (or setup reply) of the outstanding request is dispatched:
\* a setup reply updates the setup, and the outstanding flag is cleared.
add_rx_frame(s) ==
    [setup_set_data(s, s.outstanding) EXCEPT !.busy = FALSE, !.outstanding = NoCmd]

\* An instrument that answers at once: the acknowledgement is dispatched before
\* send_cmd_frame returns to its caller.
AnswerFast(s, r) ==
    IF DeviceHears(s, r) /\ r = "fast" THEN add_rx_frame(s) ELSE s

\* The frame is written and the request is outstanding.
WriteFrame(s, cmd, o) ==
    [Log(s, "write", cmd, o, TRUE) EXCEPT !.busy = TRUE, !.outstanding = <<cmd, o>>]

\* send_cmd_frame: Busy while a request is outstanding; else the frame is
\* written and, when the write succeeds, the request is outstanding.
send_cmd_frame(s, cmd, o, r) ==
    IF s.busy THEN Ret(s, "False")
    ELSE IF ~WriteOk(s) THEN Ret(Log(s, "write", cmd, o, FALSE), "False")
    ELSE Ret(AnswerFast(DeviceExecutes(WriteFrame(s, cmd, o), cmd, o, r), r), "True")

\* wait_not_busy: returns once the outstanding flag is clear; on timeout it
\* clears the flag itself.
wait_not_busy(s, r) ==
    IF ~s.busy THEN Log(s, "wait", "not busy", "", TRUE)
    ELSE IF DeviceHears(s, r) THEN add_rx_frame(Log(s, "wait", "ack", "", TRUE))
    ELSE [Log(s, "wait", "timeout", "", FALSE)
             EXCEPT !.busy = FALSE, !.outstanding = NoCmd]

\* The value send_cmd_frame returned (in s1, from the state s) is returned to
\* the caller of send_communicator, and the call is recorded.
ReturnSent(s, s1, cmd, o) ==
    [s1 EXCEPT !.trace = Append(@, SendEv(s, s1, cmd, o))]

\* A send_communicator that reports success whatever send_cmd_frame returned.
send_communicator_always_true(s, cmd, o, r) ==
    ReturnSent(s, Ret(send_cmd_frame(s, cmd, o, r), "True"), cmd, o)

send_communicator(s, cmd, o, r) ==
    ReturnSent(s, send_cmd_frame(s, cmd, o, r), cmd, o)

----------------------------------------------------------------------------
(* Measurements with the device *)

\* success = send_communicator(...); wait_not_busy(); return success
WaitReturnSuccess(s1, r) == Ret(wait_not_busy(s1, r), s1.ret)

\* A _start_meas that submits the command a second time.
_start_meas_retry(s, r) ==
    WaitReturnSuccess(
        send_communicator(send_communicator(s, CMD_START_STOP_MEAS, OP_START_MEAS, r),
                          CMD_START_STOP_MEAS, OP_START_MEAS, r), r)

_start_meas(s, r) ==
    WaitReturnSuccess(send_communicator(s, CMD_START_STOP_MEAS, OP_START_MEAS, r), r)

_stop_meas(s, r) ==
    WaitReturnSuccess(send_communicator(s, CMD_START_STOP_MEAS, OP_STOP_MEAS, r), r)

\* A stop that resets the progress but leaves the measuring state as it is.
StopMeasDone_keeps_state(s1) ==
    IF s1.ret = "True"
    THEN Ret(emit_to_gui(s1, "FrameProgress", "0,0"), "None")
    ELSE Ret(s1, "None")

\* if success: change_state(IDLE); emit FrameProgress(0, 0)
StopMeasDone(s1) ==
    IF s1.ret = "True"
    THEN Ret(emit_to_gui(change_state(s1, IDLE), "FrameProgress", "0,0"), "None")
    ELSE Ret(s1, "None")

stop_meas(s, r) == StopMeasDone(_stop_meas(s, r))

\* A guard that shows its message and runs the function all the same.
check_not_measuring_runs_anyway(s, force_stop, r) ==
    IF ~is_measuring(s) THEN [s |-> s, run_func |-> TRUE]
    ELSE [s |-> infoMsgBox(s, "Please stop measurements first"), run_func |-> TRUE]

\* The decision of the decorator check_not_measuring(force_stop): the state
\* after its own statements, and whether the decorated function is run.
check_not_measuring(s, force_stop, r) ==
    IF ~is_measuring(s) THEN [s |-> s, run_func |-> TRUE]
    ELSE IF force_stop
    THEN [s |-> infoMsgBox(stop_meas(s, r), "Measurements have been stopped"),
          run_func |-> TRUE]
    ELSE [s |-> infoMsgBox(s, "Please stop measurements first"),
          run_func |-> FALSE]

\* wrap: return func(self, ...) if run_func else None.  FuncEntry is the state
\* in which the decorated function starts: its "body" event records the
\* measuring state at that moment.  NotRun is the return without running it.
FuncEntry(g, name) == Log(g.s, "body", name, "", TRUE)

NotRun(g) == Ret(g.s, "None")

\* A start that changes the state whether or not the command was sent.
StartMeasDone_ignores_failure(s1) ==
    Ret(emit_to_gui(change_state(s1, MEASURING), "FrameInfo", ""), s1.ret)

\* if success: change_state(MEASURING); emit FrameInfo(""); return success
StartMeasDone(s1) ==
    IF s1.ret = "True"
    THEN Ret(emit_to_gui(change_state(s1, MEASURING), "FrameInfo", ""), "True")
    ELSE Ret(s1, "False")

start_meas_func(s, r) == StartMeasDone(_start_meas(s, r))

start_meas_wrap(g, r) ==
    IF g.run_func THEN start_meas_func(FuncEntry(g, "start_meas"), r) ELSE NotRun(g)

start_meas(s, r) == start_meas_wrap(check_not_measuring(s, FALSE, r), r)

\* A resume that resets the frame info as a start does.
ResumeMeasDone_resets_info(s1) ==
    IF s1.ret = "True"
    THEN Ret(emit_to_gui(change_state(s1, MEASURING), "FrameInfo", ""), "True")
    ELSE Ret(s1, "False")

ResumeMeasDone(s1) ==
    IF s1.ret = "True" THEN Ret(change_state(s1, MEASURING), "True")
    ELSE Ret(s1, "False")

resume_meas_func(s, r) == ResumeMeasDone(_start_meas(s, r))

resume_meas_wrap(g, r) ==
    IF g.run_func THEN resume_meas_func(FuncEntry(g, "resume_meas"), r) ELSE NotRun(g)

resume_meas(s, r) == resume_meas_wrap(check_not_measuring(s, FALSE, r), r)

\* A pause that publishes the progress of a stop, FrameProgress(0, 0).
PauseMeasDone_resets_progress(s1) ==
    IF s1.ret = "True"
    THEN Ret(emit_to_gui(dataset_init_for_pause(change_state(s1, PAUSED)),
                         "FrameProgress", "0,0"), "None")
    ELSE Ret(s1, "None")

PauseMeasDone(s1) ==
    IF s1.ret = "True"
    THEN Ret(emit_to_gui(dataset_init_for_pause(change_state(s1, PAUSED)),
                         "FrameProgress", "None,0"), "None")
    ELSE Ret(s1, "None")

pause_meas(s, r) == PauseMeasDone(_stop_meas(s, r))

\* A start that does not tell the dataset to reinitialize.
start_paused_resume_meas_no_init(s, r) ==
    IF is_idle(s) THEN Ret(start_meas(s, r), "None")
    ELSE IF is_measuring(s) THEN Ret(pause_meas(s, r), "None")
    ELSE IF is_paused(s) THEN Ret(resume_meas(s, r), "None")
    ELSE Ret(s, "None")

start_paused_resume_meas(s, r) ==
    IF is_idle(s) THEN Ret(start_meas(dataset_init_for_start(s), r), "None")
    ELSE IF is_measuring(s) THEN Ret(pause_meas(s, r), "None")
    ELSE IF is_paused(s) THEN Ret(resume_meas(s, r), "None")
    ELSE Ret(s, "None")

\* A burst check that does not test burst > 0.
check_nb_meas_reached_any_burst(s, idx, r) ==
    IF ~is_measuring(s) THEN Ret(s, "None")
    ELSE IF idx = s.setup.burst THEN Ret(stop_meas(s, r), "None")
    ELSE Ret(s, "None")

check_nb_meas_reached(s, idx, r) ==
    IF ~is_measuring(s) THEN Ret(s, "None")
    ELSE IF s.setup.burst > 0 /\ idx = s.setup.burst THEN Ret(stop_meas(s, r), "None")
    ELSE Ret(s, "None")

----------------------------------------------------------------------------
(* Setup of the device *)

get_device_infos_func(s, r) ==
    Ret(emit_to_gui(wait_not_busy(
            send_communicator(s, CMD_GET_DEVICE_INFOS, OP_NULL, r), r),
        "DevSetup", ""), "None")

get_device_infos_wrap(g, r) ==
    IF g.run_func THEN get_device_infos_func(FuncEntry(g, "get_device_infos"), r) ELSE NotRun(g)

get_device_infos(s, r) == get_device_infos_wrap(check_not_measuring(s, FALSE, r), r)

\* The commands of a sequence, submitted one after the other.
RECURSIVE SendAll(_, _, _)
SendAll(s, cmds, r) ==
    IF cmds = <<>> THEN s
    ELSE SendAll(send_communicator(s, Head(cmds)[1], Head(cmds)[2], r), Tail(cmds), r)

\* for idx in range(len(exc_pattern)): set_exc_pattern_idx(idx); send the row.
RECURSIVE SendPattern(_, _, _)
SendPattern(s, idx, r) ==
    IF idx >= s.setup.exc_pattern THEN s
    ELSE SendPattern(
            send_communicator([s EXCEPT !.setup.exc_pattern_idx = idx],
                              CMD_SET_MEAS_SETUP, OP_EXC_PATTERN, r),
            idx + 1, r)

GetSetupCmds ==
    << <<CMD_GET_MEAS_SETUP, OP_EXC_AMPLITUDE>>,
       <<CMD_GET_MEAS_SETUP, OP_BURST_COUNT>>,
       <<CMD_GET_MEAS_SETUP, OP_FRAME_RATE>>,
       <<CMD_GET_MEAS_SETUP, OP_EXC_FREQUENCIES>>,
       <<CMD_GET_MEAS_SETUP, OP_EXC_PATTERN>>,
       <<CMD_GET_OUTPUT_CONFIG, OP_EXC_STAMP>>,
       <<CMD_GET_OUTPUT_CONFIG, OP_CURRENT_STAMP>>,
       <<CMD_GET_OUTPUT_CONFIG, OP_TIME_STAMP>>,
       <<CMD_GET_ETHERNET_CONFIG, OP_IP_ADRESS>>,
       <<CMD_GET_ETHERNET_CONFIG, OP_MAC_ADRESS>>,
       <<CMD_GET_ETHERNET_CONFIG, OP_DHCP>> >>

get_setup_func(s, r) ==
    Ret(emit_to_gui(wait_not_busy(SendAll(s, GetSetupCmds, r), r), "DevSetup", ""),
        "None")

get_setup_wrap(g, r) ==
    IF g.run_func THEN get_setup_func(FuncEntry(g, "get_setup"), r) ELSE NotRun(g)

get_setup(s, r) == get_setup_wrap(check_not_measuring(s, FALSE, r), r)

SetSetupCmds ==
    << <<CMD_SET_OUTPUT_CONFIG, OP_EXC_STAMP>>,
       <<CMD_SET_OUTPUT_CONFIG, OP_CURRENT_STAMP>>,
       <<CMD_SET_OUTPUT_CONFIG, OP_TIME_STAMP>>,
       <<CMD_SET_ETHERNET_CONFIG, OP_DHCP>>,
       <<CMD_SET_MEAS_SETUP, OP_RESET_SETUP>>,
       <<CMD_SET_MEAS_SETUP, OP_EXC_AMPLITUDE>>,
       <<CMD_SET_MEAS_SETUP, OP_BURST_COUNT>>,
       <<CMD_SET_MEAS_SETUP, OP_FRAME_RATE>>,
       <<CMD_SET_MEAS_SETUP, OP_EXC_FREQUENCIES>> >>

\* A set_setup that pushes the excitation pattern before the other fields.
set_setup_func_pattern_first(s, r) ==
    Ret(get_setup(wait_not_busy(SendAll(SendPattern(s, 0, r), SetSetupCmds, r), r), r),
        "None")

set_setup_func(s, r) ==
    Ret(get_setup(wait_not_busy(SendPattern(SendAll(s, SetSetupCmds, r), 0, r), r), r),
        "None")

set_setup_wrap(g, r) ==
    IF g.run_func THEN set_setup_func(FuncEntry(g, "set_setup"), r) ELSE NotRun(g)

set_setup(s, r) == set_setup_wrap(check_not_measuring(s, FALSE, r), r)

----------------------------------------------------------------------------
(* Connection with the device *)

DictKeys(d) == {e[1] : e \in d}
DictGet(d, k) == (CHOOSE e \in d : e[1] = k)[2]
DictSet(d, k, v) == {e \in d : e[1] # k} \cup {<<k, v>>}

\* Returns (in ret) the port of the device of that name, or "None".
_get_sciospec_port(s, name) ==
    IF s.sciospec_devices = {}
    THEN Ret(Log(s, "msg", "No Sciospec devices - DETECTED", "", TRUE), "None")
    ELSE IF name \notin DictKeys(s.sciospec_devices)
    THEN Ret(Log(s, "msg", "Sciospec device - NOT FOUND ", "", TRUE), "None")
    ELSE Ret(s, DictGet(s.sciospec_devices, name))

\* self.device_name = name if port else NONE_DEVICE
SetName(s1, name) ==
    Ret([s1 EXCEPT !.device_name = IF s1.ret # "None" THEN name ELSE NONE_DEVICE],
        "None")

set_device_name_func(s, name) == SetName(_get_sciospec_port(s, name), name)

set_device_name_wrap(g, name) ==
    IF g.run_func THEN set_device_name_func(FuncEntry(g, "set_device_name"), name)
    ELSE NotRun(g)

set_device_name(s, name) ==
    set_device_name_wrap(check_not_measuring(s, FALSE, "none"), name)

\* setup.build_sciospec_device_name(port): None unless a serial number was read.
build_sciospec_device_name(s) ==
    IF s.setup.sn = NoSN THEN "None" ELSE DevName(s.setup.sn)

\* A probe that does not put the serial number back.
ProbeDone_keeps_sn(s3, tmp_sn) ==
    Ret(_disconnect_interface(s3), build_sciospec_device_name(s3))

\* The end of a probe: the name is built, the port closed, the serial number
\* put back.
ProbeDone(s3, tmp_sn) ==
    Ret([_disconnect_interface(s3) EXCEPT !.setup.sn = tmp_sn],
        build_sciospec_device_name(s3))

\* A probe that asks for the device infos before it stops the measurement.
_check_is_sciospec_dev_infos_first(s, p, r) ==
    ProbeDone(_stop_meas(get_device_infos(_connect_interface(s, p), r), r),
              s.setup.sn)

_check_is_sciospec_dev(s, p, r) ==
    ProbeDone(get_device_infos(_stop_meas(_connect_interface(s, p), r), r),
              s.setup.sn)

\* serial_interface.get_ports_available(): the ports present, in listing order.
get_ports_available(s) == SelectSeq(Ports, LAMBDA p : p \in s.ports_available)

\* if device_name is not None: the device is listed and selected.
AddDevice(s1, p) ==
    IF s1.ret # "None"
    THEN [s1 EXCEPT !.sciospec_devices = DictSet(@, s1.ret, p),
                    !.device_name = s1.ret]
    ELSE s1

RECURSIVE ProbePorts(_, _, _)
ProbePorts(s, ports, r) ==
    IF ports = <<>> THEN s
    ELSE ProbePorts(AddDevice(_check_is_sciospec_dev(s, Head(ports), r), Head(ports)),
                    Tail(ports), r)

get_devices_func(s, r) ==
    Ret(Log(ProbePorts([s EXCEPT !.sciospec_devices = {}], get_ports_available(s), r),
            "gui", "DevAvailables", "", TRUE),
        "dict")

get_devices_wrap(g, r) ==
    IF g.run_func THEN get_devices_func(FuncEntry(g, "get_devices"), r) ELSE NotRun(g)

get_devices(s, r) == get_devices_wrap(check_not_measuring(s, FALSE, r), r)

\* A connect that drops the device name when it succeeds.
ConnectDone_drops_name(s3, success) ==
    Ret(emit_dev_status(
            [s3 EXCEPT !.device_name = IF success = "True" THEN NONE_DEVICE ELSE @]),
        success)

\* self.device_name = self.device_name if success else NONE_DEVICE;
\* emit_dev_status(); return success
ConnectDone(s3, success) ==
    Ret(emit_dev_status(
            [s3 EXCEPT !.device_name = IF success = "True" THEN @ ELSE NONE_DEVICE]),
        success)

\* if success: get_device_infos()
ConnectOpened(s2, r) ==
    ConnectDone(IF s2.ret = "True" THEN get_device_infos(s2, r) ELSE s2, s2.ret)

\* A connect that, without a port, falls through to the end of the method
\* instead of returning.
ConnectPort_falls_through(s1, r) ==
    IF s1.ret = "None" THEN ConnectDone(s1, "False")
    ELSE ConnectOpened(_connect_interface(s1, s1.ret), r)

ConnectPort(s1, r) ==
    IF s1.ret = "None" THEN Ret(s1, "False")
    ELSE ConnectOpened(_connect_interface(s1, s1.ret), r)

connect_device_func(s, r) == ConnectPort(_get_sciospec_port(s, s.device_name), r)

connect_device_wrap(g, r) ==
    IF g.run_func THEN connect_device_func(FuncEntry(g, "connect_device"), r) ELSE NotRun(g)

connect_device(s, r) == connect_device_wrap(check_not_measuring(s, FALSE, r), r)

\* if success: setup.reinit(); serial_interface.reinit()
\* self.device_name = NONE_DEVICE if success else self.device_name
DisconnectDone(s1) ==
    IF s1.ret = "True"
    THEN [s1 EXCEPT !.setup = InitSetup, !.device_name = NONE_DEVICE]
    ELSE s1

disconnect_device_func(s, r) ==
    IF ~s.is_connected THEN Ret(s, "None")
    ELSE Ret(get_devices(emit_dev_status(DisconnectDone(_disconnect_interface(s))), r),
             "None")

disconnect_device_wrap(g, r) ==
    IF g.run_func THEN disconnect_device_func(FuncEntry(g, "disconnect_device"), r) ELSE NotRun(g)

disconnect_device(s, r) == disconnect_device_wrap(check_not_measuring(s, FALSE, r), r)

\* A reset that disconnects before the settle delay.
software_reset_func_early_disconnect(s, r) ==
    Ret(infoMsgBox(
            Log(disconnect_device(
                    wait_not_busy(send_communicator(s, CMD_SOFT_RESET, OP_NULL, r), r), r),
                "sleep", "10", "", TRUE),
            "Reset done"),
        "None")

software_reset_func(s, r) ==
    Ret(infoMsgBox(
            disconnect_device(
                Log(wait_not_busy(send_communicator(s, CMD_SOFT_RESET, OP_NULL, r), r),
                    "sleep", "10", "", TRUE),
                r),
            "Reset done"),
        "None")

software_reset_wrap(g, r) ==
    IF g.run_func THEN software_reset_func(FuncEntry(g, "software_reset"), r) ELSE NotRun(g)

software_reset(s, r) == software_reset_wrap(check_not_measuring(s, FALSE, r), r)

\* A measurement frame is dispatched: the communicator hands it to
\* emit_to_dataset; the dataset stores it and has the burst checked.
CheckBurst(s1, r) == check_nb_meas_reached(s1, s1.nb_frames, r)

rx_meas_frame(s, r) ==
    CheckBurst(dataset_add_frame(emit_to_dataset(
        [s EXCEPT !.rx_pending = IF @ > 0 THEN @ - 1 ELSE 0], "rx_meas_stream")), r)

----------------------------------------------------------------------------
(* update_event.py: the events agent *)

\* The main window the agent was built with.
APP == "app"

\* The catalog of update functions: a function is known by its __name__.
UPDATE_EVENTS ==
    {"update_available_devices", "update_device_status", "update_device_setup",
     "update_live_status", "update_replay_status", "update_imaging_inputs_fields",
     "update_eitdata_plots_options", "update_progress_acquired_frame",
     "update_frame_info", "update_autosave_options", "update_dataset_loaded"}

\* Classes decorated with @dataclass; PlainData is a dataclass that does not
\* derive from EventDataClass.
Dataclasses == {"DevStatus", "FrameProgress", "FrameInfo", "EITdataPlotOptions", "PlainData"}

\* Classes deriving from EventDataClass; BareEvent is a subclass that is not
\* a dataclass.
EventSubclasses == {"DevStatus", "FrameProgress", "FrameInfo", "EITdataPlotOptions", "BareEvent"}

\* A data object: its class, whether it is the class itself rather than an
\* instance, and its __dict__.
DataObject(cls, is_type, dict) == [cls |-> cls, is_type |-> is_type, dict |-> dict]

\* Python's None.
None == DataObject("NoneType", FALSE, <<>>)

DevStatus ==
    {DataObject("DevStatus", FALSE,
                [connected |-> c, status_prompt |-> "prompt", func |-> "update_device_status"]) :
        c \in BOOLEAN}

FrameProgress ==
    {DataObject("FrameProgress", FALSE,
                [idx_frame |-> i, progression |-> p, func |-> "update_progress_acquired_frame"]) :
        i \in 0..1, p \in {0, 100}}

FrameInfo ==
    {DataObject("FrameInfo", FALSE, [info |-> i, func |-> "update_frame_info"]) :
        i \in {"", "frame"}}

EITdataPlotOptions ==
    {DataObject("EITdataPlotOptions", FALSE, [func |-> "update_eitdata_plots_options"])}

\* Objects that are not instances of an EventDataClass dataclass: an instance
\* of a plain dataclass, an instance of a subclass that is not a dataclass,
\* an event class itself, and None.
OtherData ==
    {DataObject("PlainData", FALSE, [info |-> "frame", func |-> "update_frame_info"]),
     DataObject("BareEvent", FALSE, [func |-> "update_frame_info"]),
     DataObject("FrameInfo", TRUE, [func |-> "update_frame_info"]),
     None}

\* The objects a caller can construct.
Constructed == DevStatus \cup FrameProgress \cup FrameInfo \cup EITdataPlotOptions \cup OtherData

is_dataclass_instance(obj) == obj.cls \in Dataclasses /\ ~obj.is_type

isinstance_EventDataClass(obj) == obj.cls \in EventSubclasses /\ ~obj.is_type

\* EventsAgent.__init__
EventsAgent_init(app, events) == [subscribers |-> {}, app |-> app, events |-> events]

\* The result of a post: the agent and the object after it, the calls of
\* update functions it made, and the exception it raised.
PostResult(a, data, calls, raised) ==
    [agent |-> a, data |-> data, calls |-> calls, raised |-> raised]

\* d = data.__dict__ ; d["app"] = self.app : d is the object's own __dict__.
_mk_dict(a, d) == [k \in DOMAIN d \cup {"app"} |-> IF k = "app" THEN a.app ELSE d[k]]

\* d.pop(key) : what is left of d.
pop(d, key) == [k \in DOMAIN d \ {key} |-> d[k]]

\* self.events[func](**data)
call_event(a, data, func) ==
    IF func \in a.events
    THEN PostResult(a, data, <<[func |-> func, kwargs |-> data.dict]>>, "None")
    ELSE PostResult(a, data, <<>>, "KeyError")

\* func = data.pop("func") ; self.events[func](**data), data being d
pop_and_call(a, data, d) ==
    IF "func" \in DOMAIN d
    THEN call_event(a, [data EXCEPT !.dict = pop(d, "func")], d["func"])
    ELSE PostResult(a, [data EXCEPT !.dict = d], <<>>, "KeyError")

\* A post that does not check what kind of object its data are.
post_event_data_unchecked(a, data) == pop_and_call(a, data, _mk_dict(a, data.dict))

post_event_data(a, data) ==
    IF ~is_dataclass_instance(data) \/ ~isinstance_EventDataClass(data)
    THEN PostResult(a, data, <<>>, "None")
    ELSE pop_and_call(a, data, _mk_dict(a, data.dict))

\* The objects a caller holds.
MaxObjects == 2

Objects == 1..MaxObjects

\* No post has been made since the objects were constructed.
NoPost == [id |-> 0, data |-> None, calls |-> <<>>, raised |-> "None"]

----------------------------------------------------------------------------
(* The state machine *)

\* No call is being observed.
NoOp == [name |-> "none", pre |-> IDLE, idx |-> 0, ret |-> "None"]

Init ==
    /\ meas_status = IDLE
    /\ device_name = NONE_DEVICE
    /\ sciospec_devices = {}
    /\ setup = InitSetup
    /\ is_connected = FALSE
    /\ port = NoPort
    /\ busy = FALSE
    /\ outstanding = NoCmd
    /\ nb_frames = 0
    /\ ports_available = PortSet
    /\ dev_streaming = FALSE
    /\ rx_pending = 0
    /\ burst_reached = FALSE
    /\ trace = <<>>
    /\ op = NoOp
    /\ commanded = OP_NULL
    /\ dev_status = "None"
    /\ agent = EventsAgent_init(APP, UPDATE_EVENTS)
    /\ event_data = [o \in Objects |-> None]
    /\ posted = NoPost

\* The frame of that call is the last of a burst: it is dispatched while
\* Measuring and is the burst-th frame of the dataset.
BurstFrame(name, idx) ==
    /\ name = "rx_meas_frame"
    /\ meas_status = MEASURING
    /\ setup.burst > 0
    /\ idx = setup.burst

\* The start/stop commands of a log that send_communicator reported as sent.
StartStopSent(log) ==
    SelectSeq(log, LAMBDA e : e.k = "send" /\ e.a = CMD_START_STOP_MEAS /\ e.ok)

\* The DevStatus notifications of a log.
DevStatusPublished(log) ==
    SelectSeq(log, LAMBDA e : e.k = "gui" /\ e.a = "DevStatus")

\* The last element of a sequence that is not empty.
Last(seq) == seq[Len(seq)]

\* The state after a call becomes the current state.
Commit(s, name, idx) ==
    /\ op = NoOp
    /\ meas_status' = s.meas_status
    /\ device_name' = s.device_name
    /\ sciospec_devices' = s.sciospec_devices
    /\ setup' = s.setup
    /\ is_connected' = s.is_connected
    /\ port' = s.port
    /\ busy' = s.busy
    /\ outstanding' = s.outstanding
    /\ nb_frames' = s.nb_frames
    /\ ports_available' = s.ports_available
    /\ dev_streaming' = s.dev_streaming
    /\ rx_pending' = s.rx_pending
    /\ burst_reached' =
          IF BurstFrame(name, idx) THEN TRUE
          ELSE IF s.meas_status = MEASURING /\ meas_status # MEASURING THEN FALSE
          ELSE burst_reached
    /\ trace' = s.trace
    /\ op' = [name |-> name, pre |-> meas_status, idx |-> idx, ret |-> s.ret]
    /\ commanded' =
          IF StartStopSent(s.trace) = <<>> THEN commanded
          ELSE Last(StartStopSent(s.trace)).b
    /\ dev_status' =
          IF DevStatusPublished(s.trace) = <<>> THEN dev_status
          ELSE Bool(Last(DevStatusPublished(s.trace)).ok)
    /\ UNCHANGED <<agent, event_data, posted>>

StartPausedResumeMeas ==
    \E r \in Resp : Commit(start_paused_resume_meas(State, r), "start_paused_resume_meas", 0)

StartMeas == \E r \in Resp : Commit(start_meas(State, r), "start_meas", 0)

ResumeMeas == \E r \in Resp : Commit(resume_meas(State, r), "resume_meas", 0)

PauseMeas == \E r \in Resp : Commit(pause_meas(State, r), "pause_meas", 0)

StopMeas == \E r \in Resp : Commit(stop_meas(State, r), "stop_meas", 0)

CheckNbMeasReached ==
    \E r \in Resp, idx \in 0..(MaxBurst + 1) :
        Commit(check_nb_meas_reached(State, idx, r), "check_nb_meas_reached", idx)

GetDeviceInfos == \E r \in Resp : Commit(get_device_infos(State, r), "get_device_infos", 0)

SetSetup == \E r \in Resp : Commit(set_setup(State, r), "set_setup", 0)

GetSetup == \E r \in Resp : Commit(get_setup(State, r), "get_setup", 0)

SetDeviceName ==
    \E name \in DeviceNames :
        Commit(set_device_name(State, name), "set_device_name", 0)

GetDevices == \E r \in Resp : Commit(get_devices(State, r), "get_devices", 0)

ConnectDevice == \E r \in Resp : Commit(connect_device(State, r), "connect_device", 0)

DisconnectDevice ==
    \E r \in Resp : Commit(disconnect_device(State, r), "disconnect_device", 0)

SoftwareReset == \E r \in Resp : Commit(software_reset(State, r), "software_reset", 0)

RxMeasFrame ==
    /\ WriteOk(State)
    /\ dev_streaming \/ rx_pending > 0
    /\ nb_frames < MaxFrames
    /\ \E r \in Resp :
        Commit(rx_meas_frame(State, r), "rx_meas_frame", nb_frames + 1)

\* The operator edits the setup: the burst count.
EditSetup ==
    \E b \in 0..MaxBurst :
        Commit([State EXCEPT !.setup.burst = b], "edit_setup", 0)

\* A serial device is plugged in or pulled out.
PlugPort ==
    \E p \in Pluggable \ ports_available :
        Commit([State EXCEPT !.ports_available = @ \cup {p}], "plug", 0)

UnplugPort ==
    \E p \in Pluggable \cap ports_available :
        Commit([State EXCEPT !.ports_available = @ \ {p}, !.rx_pending = 0],
               "unplug", 0)

\* serial_interface.error fires: the controller handles the error.
HandleInterfaceError ==
    \E error \in InterfaceErrors(State) :
        Commit(_handle_interface_error(State, error), "_handle_interface_error", 0)

\* The events of the call that returned have been observed.
Observed ==
    /\ op # NoOp
    /\ op' = NoOp
    /\ trace' = <<>>
    /\ UNCHANGED <<meas_status, device_name, sciospec_devices, setup, is_connected,
                   port, busy, outstanding, nb_frames, ports_available,
                   dev_streaming, rx_pending, burst_reached, commanded,
                   dev_status, agent, event_data, posted>>

Next ==
    \/ StartPausedResumeMeas
    \/ StartMeas
    \/ ResumeMeas
    \/ PauseMeas
    \/ StopMeas
    \/ CheckNbMeasReached
    \/ GetDeviceInfos
    \/ SetSetup
    \/ GetSetup
    \/ SetDeviceName
    \/ GetDevices
    \/ ConnectDevice
    \/ DisconnectDevice
    \/ SoftwareReset
    \/ RxMeasFrame
    \/ EditSetup
    \/ PlugPort
    \/ UnplugPort
    \/ HandleInterfaceError
    \/ Observed

Spec == Init /\ [][Next]_vars

\* The decorator applied with force_stop = True (no method of the controller is
\* decorated so): here around the function of get_device_infos.
forced_wrap(g, r) ==
    IF g.run_func THEN get_device_infos_func(FuncEntry(g, "forced"), r) ELSE NotRun(g)

forced(s, r) == forced_wrap(check_not_measuring(s, TRUE, r), r)

Forced == \E r \in Resp : Commit(forced(State, r), "forced", 0)

NextForce == Next \/ Forced

SpecForce == Init /\ [][NextForce]_vars

\* The variables of the device controller.
device_vars == <<meas_status, device_name, sciospec_devices, setup, is_connected,
                 port, busy, outstanding, nb_frames, ports_available,
                 dev_streaming, rx_pending, burst_reached, trace, op,
                 commanded, dev_status>>

\* A caller constructs a data object and keeps a reference to it.
NewEvent ==
    \E o \in Objects, data \in Constructed :
        /\ event_data' = [event_data EXCEPT ![o] = data]
        /\ posted' = NoPost
        /\ UNCHANGED <<agent, device_vars>>

\* The state after agent.post_event_data(event_data[o]).
Posted(o, res) ==
    /\ agent' = res.agent
    /\ event_data' = [event_data EXCEPT ![o] = res.data]
    /\ posted' = [id |-> o, data |-> event_data[o], calls |-> res.calls,
                  raised |-> res.raised]
    /\ UNCHANGED device_vars

PostEvent == \E o \in Objects : Posted(o, post_event_data(agent, event_data[o]))

NextEvents == NewEvent \/ PostEvent

SpecEvents == Init /\ [][NextEvents]_vars

----------------------------------------------------------------------------
(* Reading the events of the call that has just returned *)

Events == DOMAIN trace

IsSend(i) == trace[i].k = "send"

\* The call submitted the command (cmd, o) and send_communicator returned success.
SentOk(cmd, o) ==
    \E i \in Events : IsSend(i) /\ trace[i].a = cmd /\ trace[i].b = o /\ trace[i].ok

\* The call published the notification cls(payload) to the GUI.
Published(cls, payload) ==
    \E i \in Events : trace[i].k = "gui" /\ trace[i].a = cls /\ trace[i].b = payload

\* The operations decorated with check_not_measuring() that are not themselves
\* measurement transitions.
GuardedOps ==
    {"connect_device", "disconnect_device", "set_setup", "get_setup",
     "get_device_infos", "set_device_name", "get_devices", "software_reset"}

----------------------------------------------------------------------------
(* The measuring state machine *)

\* C1: the body of a guarded operation never starts while the measuring
\* state is Measuring or Paused: whenever such a body starts, the state is Idle.
C1_GuardedBodyOnlyInIdle ==
    \A i \in Events :
        (trace[i].k = "body" /\ trace[i].a \in GuardedOps) => trace[i].st = IDLE

\* C2: start_meas called in Measuring or Paused submits no command, publishes
\* no FrameInfo and leaves the measuring state as it was.
C2_StartOnlyFromIdle ==
    (op.name = "start_meas" /\ op.pre # IDLE) =>
        /\ \A i \in Events : ~IsSend(i)
        /\ \A i \in Events : ~(trace[i].k = "gui" /\ trace[i].a = "FrameInfo")
        /\ meas_status = op.pre

\* C3: in every step in which the measuring state becomes Paused, the state
\* before the step is Measuring.
C3_PausedOnlyFromMeasuring ==
    [][(meas_status' = PAUSED /\ meas_status # PAUSED) => meas_status = MEASURING]_vars

\* C4: a resume_meas that moves the measuring state to Measuring was called in
\* Paused.
C4_ResumeOnlyFromPaused ==
    (op.name = "resume_meas" /\ meas_status = MEASURING /\ op.pre # MEASURING) =>
        op.pre = PAUSED

\* C5: stop_meas is not subject to the not-measuring guard (it always submits
\* Stop and never answers "Please stop measurements first"), and when it is
\* called in Measuring or Paused and the Stop command is sent successfully the
\* measuring state is Idle afterwards and FrameProgress(0, 0) is published.
C5_StopReachesIdle ==
    op.name = "stop_meas" =>
        /\ \A i \in Events :
              ~(trace[i].k = "msg" /\ trace[i].a = "Please stop measurements first")
        /\ \E i \in Events :
              IsSend(i) /\ trace[i].a = CMD_START_STOP_MEAS /\ trace[i].b = OP_STOP_MEAS
        /\ (op.pre \in {MEASURING, PAUSED} /\ SentOk(CMD_START_STOP_MEAS, OP_STOP_MEAS))
              => (meas_status = IDLE /\ Published("FrameProgress", "0,0"))

\* C5 happens: a stop_meas called in Measuring whose Stop command was sent.
C5_Witness ==
    /\ op.name = "stop_meas"
    /\ op.pre = MEASURING
    /\ SentOk(CMD_START_STOP_MEAS, OP_STOP_MEAS)
    /\ meas_status = IDLE

\* C6: with a burst count B > 0, the step that dispatches the B-th frame while
\* Measuring leaves the measuring state Idle, and from then on no measurement
\* frame is forwarded to the dataset until the measuring state is Measuring
\* again.
C6_BurstStopsFrames ==
    [][/\ (burst_reached' /\ ~burst_reached) => meas_status' = IDLE
       /\ burst_reached => op'.name # "rx_meas_frame"]_vars

\* C7: check_nb_meas_reached called with burst count 0, or in Idle or Paused,
\* does nothing at all, whatever the frame index: no command, no notification,
\* no change of the measuring state; when it does submit Stop, it was called
\* in Measuring with a positive burst count equal to the frame index.
C7_BurstCheckOnlyWhenMeasuring ==
    op.name = "check_nb_meas_reached" =>
        /\ (setup.burst = 0 \/ op.pre # MEASURING) =>
              (trace = <<>> /\ meas_status = op.pre)
        /\ (\E i \in Events : IsSend(i)) =>
              (op.pre = MEASURING /\ setup.burst > 0 /\ op.idx = setup.burst)

\* C7 happens: the burst check is called in Measuring with burst count 0 and
\* frame index 0 (the index equals the burst count, and nothing is stopped).
C7_Witness ==
    /\ op.name = "check_nb_meas_reached"
    /\ op.pre = MEASURING
    /\ setup.burst = 0
    /\ op.idx = 0
    /\ meas_status = MEASURING

\* The measurement transitions.
MeasOps == {"start_meas", "resume_meas", "pause_meas", "stop_meas"}

\* wait_not_busy timed out during the call.
TimedOut == \E i \in Events : trace[i].k = "wait" /\ trace[i].a = "timeout"

\* C8: a measurement transition during which wait_not_busy timed out leaves
\* the measuring state as it was and does not return success.
C8_TimeoutIsFailure ==
    (op.name \in MeasOps /\ TimedOut) => (meas_status = op.pre /\ op.ret # "True")

----------------------------------------------------------------------------
(* The communicator's single outstanding request *)

\* C9: no command is submitted while a request is outstanding: every
\* submission, those of set_setup and get_setup included, finds the
\* outstanding flag clear.
C9_SubmissionsSerialized ==
    \A i \in Events : IsSend(i) => ~trace[i].busy

\* C10: a command submitted while a request is outstanding is answered with
\* failure, is not written to the port, and leaves the outstanding request as
\* it was.
C10_BusyRejects ==
    \A i \in Events :
        (IsSend(i) /\ trace[i].busy) =>
            /\ ~trace[i].ok
            /\ trace[i].was # NoCmd
            /\ trace[i].out = trace[i].was
            /\ (i = 1 \/ trace[i - 1].k # "write")

\* C10 happens: a command was submitted while a different command was
\* outstanding.
C10_Witness ==
    \E i \in Events :
        IsSend(i) /\ trace[i].busy /\ trace[i].was # <<trace[i].a, trace[i].b>>

----------------------------------------------------------------------------
(* The setup of the device *)

\* The commands the call submitted, in order: <<command, option, pattern row>>.
SendEvents == SelectSeq(trace, LAMBDA e : e.k = "send")

Submitted == [i \in DOMAIN SendEvents |->
                 <<SendEvents[i].a, SendEvents[i].b, SendEvents[i].idx>>]

\* The position in the log of the i-th submission.
RECURSIVE PosOfSend(_, _)
PosOfSend(i, from) ==
    IF trace[from].k = "send"
    THEN IF i = 1 THEN from ELSE PosOfSend(i - 1, from + 1)
    ELSE PosOfSend(i, from + 1)

\* C11: a set_setup whose body runs submits first the three output-stamp
\* flags, then the network configuration, then the reset of the measurement
\* setup, then amplitude, burst count, frame rate and frequencies, then one
\* excitation-pattern command per pattern row in row order; every command of
\* the read-back (get_setup) comes after all of these and after the wait.
C11_SetSetupOrder ==
    (op.name = "set_setup" /\ op.pre # MEASURING) =>
        /\ Len(Submitted) = 9 + setup.exc_pattern + 11
        /\ Submitted[1][1] = CMD_SET_OUTPUT_CONFIG /\ Submitted[1][2] = OP_EXC_STAMP
        /\ Submitted[2][1] = CMD_SET_OUTPUT_CONFIG /\ Submitted[2][2] = OP_CURRENT_STAMP
        /\ Submitted[3][1] = CMD_SET_OUTPUT_CONFIG /\ Submitted[3][2] = OP_TIME_STAMP
        /\ Submitted[4][1] = CMD_SET_ETHERNET_CONFIG /\ Submitted[4][2] = OP_DHCP
        /\ Submitted[5][1] = CMD_SET_MEAS_SETUP /\ Submitted[5][2] = OP_RESET_SETUP
        /\ Submitted[6][1] = CMD_SET_MEAS_SETUP /\ Submitted[6][2] = OP_EXC_AMPLITUDE
        /\ Submitted[7][1] = CMD_SET_MEAS_SETUP /\ Submitted[7][2] = OP_BURST_COUNT
        /\ Submitted[8][1] = CMD_SET_MEAS_SETUP /\ Submitted[8][2] = OP_FRAME_RATE
        /\ Submitted[9][1] = CMD_SET_MEAS_SETUP /\ Submitted[9][2] = OP_EXC_FREQUENCIES
        /\ \A row \in 0..(setup.exc_pattern - 1) :
              Submitted[10 + row] = <<CMD_SET_MEAS_SETUP, OP_EXC_PATTERN, row>>
        /\ \A i \in (10 + setup.exc_pattern)..Len(Submitted) :
              Submitted[i][1] \in {CMD_GET_MEAS_SETUP, CMD_GET_OUTPUT_CONFIG,
                                   CMD_GET_ETHERNET_CONFIG}
        /\ \E w \in Events :
              /\ trace[w].k = "wait"
              /\ PosOfSend(9 + setup.exc_pattern, 1) < w
              /\ w < PosOfSend(10 + setup.exc_pattern, 1)

\* C11 happens: a set_setup ran on a connected device and every command of the
\* push was written to the port.
C11_Witness ==
    /\ op.name = "set_setup"
    /\ op.pre = IDLE
    /\ Len(SendEvents) > 9
    /\ \A i \in 1..(9 + setup.exc_pattern) : SendEvents[i].ok

----------------------------------------------------------------------------
(* The not-measuring guard with force_stop = True *)

\* C12: when a function decorated with force_stop = True is called in
\* Measuring, "Measurements have been stopped" is shown and the function
\* starts in Idle, never while the measuring state is still Measuring.
C12_ForcedBodyAfterStop ==
    (op.name = "forced" /\ op.pre = MEASURING) =>
        \E i \in Events :
            /\ trace[i].k = "body" /\ trace[i].a = "forced"
            /\ trace[i].st = IDLE
            /\ \E j \in 1..(i - 1) :
                  trace[j].k = "msg" /\ trace[j].a = "Measurements have been stopped"

----------------------------------------------------------------------------
(* Errors of the serial interface *)

\* C13: once an error of the serial interface reported while Measuring has
\* been handled, the measuring state is no longer Measuring.
C13_ErrorLeavesMeasuring ==
    (op.name = "_handle_interface_error" /\ op.pre = MEASURING) =>
        meas_status # MEASURING

----------------------------------------------------------------------------
(* Connection with the device *)

\* C14: get_devices, which probes every available port with
\* _check_is_sciospec_dev, leaves the serial number of the setup as it was
\* before the call, whether the ports carry a Sciospec device or not.
C14_ProbeRestoresSN ==
    [][op'.name = "get_devices" => setup'.sn = setup.sn]_vars

\* C14 happens: get_devices found a Sciospec device (its serial number was
\* read into the setup during the probe) and the setup holds the placeholder.
C14_Witness ==
    /\ op.name = "get_devices"
    /\ sciospec_devices # {}
    /\ \E i \in Events : trace[i].k = "open" /\ trace[i].a \notin SciospecPorts
    /\ setup.sn = NoSN

\* C15: when the device list maps the selected name to a port and the port is
\* opened, connect_device returns True, publishes DevStatus(connected = True,
\* "<name> - CONNECTED"), keeps the device name and leaves the measuring state
\* as it was (Idle stays Idle).
C15_ConnectSucceeds ==
    [][(/\ op'.name = "connect_device"
        /\ \E i \in DOMAIN trace' :
              /\ trace'[i].k = "open" /\ trace'[i].ok
              /\ <<device_name, trace'[i].a>> \in sciospec_devices)
       => (/\ op'.ret = "True"
           /\ is_connected'
           /\ device_name' = device_name
           /\ meas_status' = meas_status
           /\ \E j \in DOMAIN trace' :
                 /\ trace'[j].k = "gui" /\ trace'[j].a = "DevStatus"
                 /\ trace'[j].b = device_name \o " - CONNECTED"
                 /\ trace'[j].ok)]_vars

\* C15 happens: connect_device called in Idle opened the port of "DevA".
C15_Witness ==
    /\ op.name = "connect_device"
    /\ op.pre = IDLE
    /\ op.ret = "True"
    /\ device_name = "DevA"
    /\ <<"DevA", port>> \in sciospec_devices
    /\ meas_status = IDLE

\* The reset command is the submission at position p of the log, and it is
\* followed at once by the wait, the settle delay and the disconnect.
ResetOrderAt(p) ==
    /\ trace[p].a = CMD_SOFT_RESET /\ trace[p].b = OP_NULL
    /\ Len(trace) >= p + 3
    /\ trace[p + 1].k = "wait"
    /\ trace[p + 2].k = "sleep" /\ trace[p + 2].a = "10"
    /\ trace[p + 3].k = "body" /\ trace[p + 3].a = "disconnect_device"
    /\ \A i \in Events : trace[i].k = "close" => i > p + 3

\* C16: a software_reset whose body runs submits the reset command first,
\* then waits, then sleeps the settle delay, then calls disconnect_device,
\* with no other submission in between, and the interface is closed when the
\* operation returns.
C16_ResetOrder ==
    (op.name = "software_reset" /\ op.pre # MEASURING) =>
        /\ \E i \in Events : IsSend(i)
        /\ ResetOrderAt(PosOfSend(1, 1))
        /\ ~is_connected

\* C16 happens: a connected Idle device was reset, the reset command was
\* sent and the port was closed.
C16_Witness ==
    /\ op.name = "software_reset"
    /\ op.pre = IDLE
    /\ SentOk(CMD_SOFT_RESET, OP_NULL)
    /\ \E i \in Events : trace[i].k = "close"
    /\ ~is_connected

----------------------------------------------------------------------------
(* Start, pause and resume: what is published *)

\* The call is a start (from Idle), a pause (from Measuring) or a resume (from
\* Paused), made directly or through start_paused_resume_meas.
IsStart ==
    op.pre = IDLE /\ op.name \in {"start_meas", "start_paused_resume_meas"}

IsPause ==
    op.pre = MEASURING /\ op.name \in {"pause_meas", "start_paused_resume_meas"}

IsResume ==
    op.pre = PAUSED /\ op.name \in {"resume_meas", "start_paused_resume_meas"}

\* The FrameProgress notifications the call published.
ProgressPublished ==
    {trace[i].b : i \in {j \in Events : trace[j].k = "gui" /\ trace[j].a = "FrameProgress"}}

FrameInfoPublished ==
    {i \in Events : trace[i].k = "gui" /\ trace[i].a = "FrameInfo"}

\* C18: a start from Idle that succeeds publishes exactly one FrameInfo("")
\* reset; a resume, successful or not, publishes none.
C18_ResumeKeepsFrameInfo ==
    /\ (IsStart /\ meas_status = MEASURING) =>
          (Cardinality(FrameInfoPublished) = 1
           /\ \A i \in FrameInfoPublished : trace[i].b = "")
    /\ (op.name = "resume_meas" \/ IsResume) => FrameInfoPublished = {}

\* C18 happens: a resume called in Paused succeeded.
C18_Witness ==
    /\ op.name = "resume_meas"
    /\ op.pre = PAUSED
    /\ op.ret = "True"
    /\ meas_status = MEASURING

----------------------------------------------------------------------------
(* Markers sent to the dataset *)

\* The call sent the marker `key` to the dataset.
MarkerSent(key) == \E i \in Events : trace[i].k = "dataset" /\ trace[i].a = key

\* C19 as stated: a call that takes the measuring state from Idle to Measuring has sent
\* the 'dev_setup' marker (reinitialize for start) to the dataset before the
\* state changed; and the 'reinit_4_pause' marker is sent exactly by the
\* pauses whose Stop command was sent.
C19_DatasetMarkers ==
    /\ (op # NoOp /\ op.pre = IDLE /\ meas_status = MEASURING) =>
          \E i \in Events :
              /\ trace[i].k = "dataset" /\ trace[i].a = "dev_setup"
              /\ trace[i].st = IDLE
    /\ MarkerSent("reinit_4_pause") <=>
          (/\ op.name = "pause_meas"
                 \/ (op.name = "start_paused_resume_meas" /\ op.pre = MEASURING)
           /\ SentOk(CMD_START_STOP_MEAS, OP_STOP_MEAS))

\* C19, amended: a start_paused_resume_meas that takes the measuring state
\* from Idle to Measuring has sent the 'dev_setup' marker to the dataset
\* before the state changed, and sends it once; and the 'reinit_4_pause'
\* marker is sent exactly by the pauses whose Stop command was sent.
C19_MarkersOfStartPausedResume ==
    /\ (op.name = "start_paused_resume_meas" /\ op.pre = IDLE) =>
          /\ trace # <<>>
          /\ trace[1].k = "dataset" /\ trace[1].a = "dev_setup" /\ trace[1].st = IDLE
          /\ \A i \in Events : (trace[i].k = "dataset" /\ trace[i].a = "dev_setup") => i = 1
    /\ MarkerSent("reinit_4_pause") <=>
          (/\ op.name = "pause_meas"
                 \/ (op.name = "start_paused_resume_meas" /\ op.pre = MEASURING)
           /\ SentOk(CMD_START_STOP_MEAS, OP_STOP_MEAS))

\* C19 happens: start_paused_resume_meas called in Idle started a measurement.
C19_Witness ==
    /\ op.name = "start_paused_resume_meas"
    /\ op.pre = IDLE
    /\ meas_status = MEASURING
    /\ MarkerSent("dev_setup")

----------------------------------------------------------------------------
(* The measuring state as observers see it *)

\* The MeasuringStatus notifications the call published (positions in the log).
StatusPublished ==
    {i \in Events : trace[i].k = "gui" /\ trace[i].a = "MeasuringStatus"}

LastStatusPublished == CHOOSE i \in StatusPublished : \A j \in StatusPublished : j <= i

\* C20: every MeasuringStatus notification carries the measuring state of the
\* moment it is published and is followed by the capture-device flag, which is
\* true exactly for Measuring and Paused; a call that changes the measuring
\* state publishes one, and the last one a call publishes carries the state
\* the controller is in when the call returns.
C20_StatusNeverStale ==
    /\ \A i \in StatusPublished :
          /\ trace[i].b = trace[i].st
          /\ i < Len(trace)
          /\ trace[i + 1].k = "capture"
          /\ trace[i + 1].a = (IF trace[i].b \in {MEASURING, PAUSED} THEN "True" ELSE "False")
    /\ (op # NoOp /\ meas_status # op.pre) => StatusPublished # {}
    /\ StatusPublished # {} => trace[LastStatusPublished].b = meas_status

\* C20 happens: a pause took the state from Measuring to Paused and the
\* status was published.
C20_Witness ==
    /\ op.name = "pause_meas"
    /\ op.pre = MEASURING
    /\ meas_status = PAUSED
    /\ StatusPublished # {}

----------------------------------------------------------------------------
(* Rejections and failures *)

\* Every operation decorated with check_not_measuring().
DecoratedOps == GuardedOps \cup {"start_meas", "resume_meas"}

\* C21: a decorated operation called in Measuring (guard not forced) returns
\* None, shows 'Please stop measurements first' once and does nothing else:
\* no command, no opening or closing of the interface, no notification, and
\* measuring state, device name, device list, setup and connection unchanged.
C21_RejectedHasNoEffect ==
    [][(op'.name \in DecoratedOps /\ op'.pre = MEASURING) =>
          /\ op'.ret = "None"
          /\ Len(trace') = 1
          /\ trace'[1].k = "msg" /\ trace'[1].a = "Please stop measurements first"
          /\ UNCHANGED <<meas_status, device_name, sciospec_devices, setup,
                         is_connected, port, busy, outstanding>>]_vars

\* C21 happens: connect_device was called in Measuring and rejected.
C21_Witness ==
    /\ op.name = "connect_device"
    /\ op.pre = MEASURING
    /\ meas_status = MEASURING
    /\ \E i \in Events : trace[i].k = "msg" /\ trace[i].a = "Please stop measurements first"

\* The submissions of the call (positions in the log).
Sends == {i \in Events : IsSend(i)}

\* C22: when the submission of Start or Stop by start_meas, resume_meas,
\* pause_meas or stop_meas fails, the command was submitted exactly once, the
\* measuring state is as before the call, and nothing is published: no
\* notification to the GUI, no marker to the dataset.
C22_FailedCommandNoRetry ==
    (op.name \in MeasOps /\ \E i \in Sends : ~trace[i].ok) =>
        /\ Cardinality(Sends) = 1
        /\ meas_status = op.pre
        /\ op.ret # "True"
        /\ \A i \in Events : trace[i].k \notin {"gui", "dataset", "capture"}

\* C22 happens: start_meas called in Idle could not submit Start.
C22_Witness ==
    /\ op.name = "start_meas"
    /\ op.pre = IDLE
    /\ \E i \in Sends : trace[i].a = CMD_START_STOP_MEAS /\ trace[i].b = OP_START_MEAS
                        /\ ~trace[i].ok
    /\ meas_status = IDLE

----------------------------------------------------------------------------
(* Scanning the ports *)

\* The ports the call opened, in order.
Opened == SelectSeq(trace, LAMBDA e : e.k = "open")

\* The commands submitted between the positions i and c of the log.
SubmittedBetween(i, c) ==
    SelectSeq(SubSeq(trace, i + 1, c - 1), LAMBDA e : e.k = "send")

\* The port opened at position i is closed at position c: in between, Stop
\* is submitted, then the request for the device infos, and nothing else.
ProbeFromTo(i, c) ==
    /\ c > i
    /\ trace[c].k = "close"
    /\ \A j \in (i + 1)..(c - 1) : trace[j].k \notin {"open", "close"}
    /\ Len(SubmittedBetween(i, c)) = 2
    /\ SubmittedBetween(i, c)[1].a = CMD_START_STOP_MEAS
    /\ SubmittedBetween(i, c)[1].b = OP_STOP_MEAS
    /\ SubmittedBetween(i, c)[2].a = CMD_GET_DEVICE_INFOS

\* C23: a get_devices whose body runs opens every available port once, in the
\* order of the listing; each port it opens is probed (Stop, then device
\* infos) and closed before the next is opened; the measuring state is as
\* before the call; and the device list is published once, after the probes.
C23_ProbeSequence ==
    (op.name = "get_devices" /\ op.pre # MEASURING) =>
        /\ [i \in DOMAIN Opened |-> Opened[i].a]
              = SelectSeq(Ports, LAMBDA p : p \in ports_available)
        /\ \A i \in Events : trace[i].k = "open" =>
              (trace[i].ok /\ \E c \in Events : ProbeFromTo(i, c))
        /\ meas_status = op.pre
        /\ ~is_connected
        /\ trace[Len(trace)].k = "gui" /\ trace[Len(trace)].a = "DevAvailables"
        /\ Cardinality({i \in Events : trace[i].k = "gui" /\ trace[i].a = "DevAvailables"}) = 1

\* C23 happens: get_devices probed two ports and found a Sciospec device on
\* one of them.
C23_Witness ==
    /\ op.name = "get_devices"
    /\ Len(Opened) = 2
    /\ sciospec_devices # {}
    /\ \E i \in Events : trace[i].k = "wait" /\ trace[i].a = "timeout"

----------------------------------------------------------------------------
(* Connecting without a port *)

\* C24: a connect_device whose body runs while the device list is empty, or
\* while the selected name is not in the list, returns False and shows the
\* prompt of its case (no devices detected / device not found); it opens no
\* port, submits no command, publishes nothing and leaves device name,
\* connection and measuring state as they were.
C24_ConnectWithoutPort ==
    [][(/\ op'.name = "connect_device"
        /\ op'.pre # MEASURING
        /\ device_name \notin {e[1] : e \in sciospec_devices})
       => (/\ op'.ret = "False"
           /\ Len(trace') = 2
           /\ trace'[1].k = "body"
           /\ trace'[2].k = "msg"
           /\ trace'[2].a = (IF sciospec_devices = {}
                             THEN "No Sciospec devices - DETECTED"
                             ELSE "Sciospec device - NOT FOUND ")
           /\ UNCHANGED <<device_name, sciospec_devices, is_connected, port,
                          meas_status, setup, busy, outstanding>>)]_vars

\* C24 happens: connect_device was called with a device list that does not
\* hold the selected name.
C24_Witness ==
    /\ op.name = "connect_device"
    /\ op.ret = "False"
    /\ sciospec_devices # {}
    /\ device_name \notin {e[1] : e \in sciospec_devices}
    /\ \E i \in Events : trace[i].k = "msg" /\ trace[i].a = "Sciospec device - NOT FOUND "

----------------------------------------------------------------------------
(* Posting events *)

\* The posted object was an instance of an EventDataClass dataclass.
PostedAnEvent ==
    /\ posted # NoPost
    /\ is_dataclass_instance(posted.data)
    /\ isinstance_EventDataClass(posted.data)

\* The fields of the posted event, func aside.
PostedFields == DOMAIN posted.data.dict \ {"func"}

C30_PostIsRepeatable ==
    [][(/\ posted # NoPost
        /\ posted.calls # <<>>
        /\ posted' # NoPost
        /\ posted'.id = posted.id)
       => (posted'.calls = posted.calls /\ posted'.raised = "None")]_vars

----------------------------------------------------------------------------
(* The state of the controller and the mode of the instrument *)

\* C26: the measuring state is Measuring exactly when the last start/stop
\* command that was sent with success, by whatever operation (a probe of a
\* port and the stop at the end of a burst included), was a Start.
C26_StateTracksCommand ==
    (meas_status = MEASURING) <=> (commanded = OP_START_MEAS)

\* C26 witness: the frame that completes a burst has been dispatched while
\* Measuring; the Stop of the automatic stop was sent with success and the
\* state is Idle.
C26_Witness ==
    /\ op.name \in {"rx_meas_frame", "check_nb_meas_reached"}
    /\ op.pre = MEASURING
    /\ SentOk(CMD_START_STOP_MEAS, OP_STOP_MEAS)
    /\ commanded = OP_STOP_MEAS
    /\ meas_status = IDLE

\* C27: while the serial interface is not connected the measuring state is
\* Idle.
C27_ActiveOnlyWhenConnected ==
    ~is_connected => meas_status = IDLE

\* C28: after every operation, the connected flag of the last DevStatus that
\* was published is the connected state of the serial interface.
C28_DevStatusNeverStale ==
    dev_status # "None" => dev_status = Bool(is_connected)

\* C29: the selected device name is the placeholder or a key of the device
\* list.
C29_NameIsListed ==
    device_name = NONE_DEVICE \/ device_name \in DictKeys(sciospec_devices)

====
